---- MODULE Spec2Model ----
(***************************************************************************)
(* Platform publication pipeline of mystery-dashboard-api.                 *)
(*                                                                         *)
(* The publication service (internal/partners/service.go) is stateless:    *)
(* one call takes a workspace, a video and a platform, resolves a client   *)
(* through the service's factory and drives it through                     *)
(* Authenticate -> Upload -> Publish -> FetchStats, mutating the caller's  *)
(* video in place.  A behaviour of Spec is one call: Init draws the        *)
(* caller's arguments and the service's factory, one action runs the whole *)
(* call and leaves its effects (the client calls in order with their       *)
(* returned values, the video, the workspace, the returned pair) in the    *)
(* state.                                                                  *)
(*                                                                         *)
(* Strings that the code parses (platform media IDs) are sequences of      *)
(* one-character strings; an int64 is its canonical decimal numeral.       *)
(***************************************************************************)
EXTENDS Integers, Sequences, FiniteSets, TLC

VARIABLES
    op,           \* the operation that ran: "none" before the call
    factory,      \* Service.factory: "New", or a test double ("mock", "failing")
    platform,     \* the platform argument
    wsBefore,     \* the caller's workspace when the call starts
    videoBefore,  \* the caller's video when the call starts
    ws,           \* the caller's workspace object
    video,        \* the caller's video object
    client,       \* the client the factory returned, as the call left it
    trace,        \* the client operations invoked, in order, with what they returned
    stats,        \* returned *VideoStats
    err,          \* returned error
    jobs,         \* the publication_jobs table: the set of its rows
    nextID,       \* the next fresh job ID (uuid.New)
    now,          \* time.Now(), in ticks
    jop,          \* the job operation that ran last: its name, tenant and job ID
    jrows,        \* the jobs it returned
    jerr,         \* the error it returned
    failSeq,      \* per job: FailJob calls since creation, -1 once another
                  \* operation has written the job
    inflight      \* per worker: the job a handler has read and is about to save

serviceVars ==
    <<op, factory, platform, wsBefore, videoBefore, ws, video, client, trace, stats, err>>

jobVars == <<jobs, nextID, now, jop, jrows, jerr, failSeq, inflight>>

vars == <<serviceVars, jobVars>>

-----------------------------------------------------------------------------
(* Values *)

NoErr == "<nil>"

NilStats == [isNil |-> TRUE, Views |-> 0]

MkStats(n) == [isNil |-> FALSE, Views |-> n]

NilClient == [kind |-> "<nil>", authed |-> FALSE]

\* models.Platform constants
PlatformYouTube == "youtube"

PlatformTikTok == "tiktok"

PlatformInstagram == "instagram"

PlatformFacebook == "facebook"

PlatformTwitter == "twitter"

PlatformLinkedIn == "linkedin"

PlatformSnapchat == "snapchat"

\* the six platforms the spec calls supported
SupportedPlatforms ==
    {PlatformYouTube, PlatformTikTok, PlatformInstagram,
     PlatformFacebook, PlatformTwitter, PlatformSnapchat}

\* platform arguments a caller may pass: the declared constants, the empty
\* string, case variants and an unknown name
PlatformInputs ==
    SupportedPlatforms \cup {PlatformLinkedIn, "", "YouTube", "TIKTOK", "vimeo"}

\* models.VideoStatus constants
StatusUploading == "uploading"

StatusProcessing == "processing"

StatusReady == "ready"

StatusFailed == "failed"

StatusArchived == "archived"

VideoStatuses ==
    {StatusUploading, StatusProcessing, StatusReady, StatusFailed, StatusArchived}

-----------------------------------------------------------------------------
(* strconv.ParseInt(id, 10, 64) on a sequence of characters.  The value is  *)
(* kept as a canonical numeral: no sign for >= 0, no leading zeros.         *)

DigitChars == {"0", "1", "2", "3", "4", "5", "6", "7", "8", "9"}

DigitVal(c) ==
    CASE c = "0" -> 0 [] c = "1" -> 1 [] c = "2" -> 2 [] c = "3" -> 3
      [] c = "4" -> 4 [] c = "5" -> 5 [] c = "6" -> 6 [] c = "7" -> 7
      [] c = "8" -> 8 [] c = "9" -> 9

IsDigits(s) == Len(s) > 0 /\ \A i \in 1..Len(s) : s[i] \in DigitChars

RECURSIVE StripZeros(_)
StripZeros(s) ==
    IF Len(s) > 1 /\ s[1] = "0" THEN StripZeros(Tail(s)) ELSE s

\* a < b for numerals without leading zeros
RECURSIVE LexLess(_, _)
LexLess(a, b) ==
    IF a = <<>> THEN FALSE
    ELSE IF DigitVal(a[1]) # DigitVal(b[1]) THEN DigitVal(a[1]) < DigitVal(b[1])
    ELSE LexLess(Tail(a), Tail(b))

NumLess(a, b) == Len(a) < Len(b) \/ (Len(a) = Len(b) /\ LexLess(a, b))

\* 1<<63 - 1 and 1<<63, the int64 cutoffs of ParseInt
MaxInt64Mag ==
    <<"9","2","2","3","3","7","2","0","3","6","8","5","4","7","7","5","8","0","7">>

MinInt64Mag ==
    <<"9","2","2","3","3","7","2","0","3","6","8","5","4","7","7","5","8","0","8">>

ZeroInt64 == <<"0">>

ParseInt(s) ==
    IF s = <<>> THEN [ok |-> FALSE, val |-> ZeroInt64]
    ELSE
      LET neg  == s[1] = "-"
          body == IF s[1] \in {"+", "-"} THEN Tail(s) ELSE s
      IN IF ~IsDigits(body) THEN [ok |-> FALSE, val |-> ZeroInt64]
         ELSE
           LET mag == StripZeros(body)
           IN IF neg
              THEN IF NumLess(MinInt64Mag, mag) THEN [ok |-> FALSE, val |-> ZeroInt64]
                   ELSE [ok |-> TRUE,
                         val |-> IF mag = ZeroInt64 THEN ZeroInt64 ELSE <<"-">> \o mag]
              ELSE IF NumLess(MaxInt64Mag, mag) THEN [ok |-> FALSE, val |-> ZeroInt64]
                   ELSE [ok |-> TRUE, val |-> mag]

-----------------------------------------------------------------------------
(* models.Workspace: the credential block, one string per field. *)

CredFields ==
    {"CredentialsPath", "TokenDir", "OAuthCode",
     "InstagramUserID", "InstagramAccessToken",
     "FacebookPageID", "FacebookPageToken",
     "TwitterConsumerKey", "TwitterConsumerSecret",
     "TwitterAccessToken", "TwitterAccessSecret",
     "SnapchatAccessToken", "SnapchatProfileID"}

\* &models.Workspace{}: every credential empty
EmptyWorkspace == [f \in CredFields |-> ""]

FullWorkspace == [f \in CredFields |-> "tok"]

\* the workspaces a caller passes: nothing connected, everything connected,
\* and everything connected but one field
Workspaces ==
    {EmptyWorkspace, FullWorkspace}
        \cup {[FullWorkspace EXCEPT ![f] = ""] : f \in CredFields}

-----------------------------------------------------------------------------
(* models.Video: status, a content field and the per-platform identifiers   *)
(* that the publication service and the clients use.                        *)

NewVideo(status) ==
    [Status |-> status, Title |-> "t",
     YouTubeID |-> <<>>, TikTokID |-> <<>>, InstagramID |-> <<>>,
     FacebookID |-> <<>>, TwitterMediaID |-> ZeroInt64, SnapchatMediaID |-> <<>>]

OldID == <<"o", "l", "d">>

\* a video that already carries an identifier on every platform
PublishedVideo(status) ==
    [Status |-> status, Title |-> "t",
     YouTubeID |-> OldID, TikTokID |-> OldID, InstagramID |-> OldID,
     FacebookID |-> OldID, TwitterMediaID |-> <<"7">>, SnapchatMediaID |-> OldID]

Videos ==
    {NewVideo(s) : s \in VideoStatuses} \cup {PublishedVideo(s) : s \in VideoStatuses}

IDFields ==
    {"YouTubeID", "TikTokID", "InstagramID", "FacebookID", "TwitterMediaID",
     "SnapchatMediaID"}

-----------------------------------------------------------------------------
(* What lies outside the program during one call: the process environment,  *)
(* the file system and SDKs behind Authenticate, and the platform's answers *)
(* to Upload, Publish and FetchStats.                                       *)

UploadIDs ==
    {<<"4", "2">>, <<"y", "t", "-", "4", "2">>, <<>>, <<"+", "0", "7">>, MinInt64Mag}

UploadOutcomes ==
    {[id |-> i, err |-> NoErr] : i \in UploadIDs}
        \cup {[id |-> <<>>, err |-> "upload failed"]}

FetchOutcomes ==
    {[stats |-> MkStats(1), err |-> NoErr],
     [stats |-> MkStats(0), err |-> NoErr],
     [stats |-> NilStats, err |-> "stats failed"],
     [stats |-> MkStats(1), err |-> "stats stale"]}

Exts ==
    [authOK : BOOLEAN,
     FB_APP_ID : {"", "app"},
     FB_APP_SECRET : {"", "secret"},
     upload : UploadOutcomes,
     publishErr : {NoErr, "publish failed"},
     fetch : FetchOutcomes]

-----------------------------------------------------------------------------
(* Platform clients (pkg/partners).  A client is its kind and whether       *)
(* Authenticate has set its handle.                                         *)

MkClient(kind) == [kind |-> kind, authed |-> FALSE]

\* one entry of the recording: the operation and what it returned
Called(call, id, st, e) == [call |-> call, id |-> id, stats |-> st, err |-> e]

\* any implementation of the Client interface: each operation fails or
\* succeeds independently (mockClient of the service test is the one that
\* always succeeds, uploads "42" and reports one view)
fakeClient_Authenticate(w, ext) ==
    IF ext.authOK THEN NoErr ELSE "auth failed"

youtubeClient_Authenticate(w, ext) ==
    IF w["CredentialsPath"] = "" THEN "unable to read credentials"
    ELSE IF ~ext.authOK THEN "unable to parse credentials"
    ELSE NoErr

tiktokClient_Authenticate(w, ext) ==
    IF ~ext.authOK THEN "failed to create TikTok client" ELSE NoErr

instagramClient_Authenticate(w, ext) ==
    IF w["InstagramUserID"] = "" \/ w["InstagramAccessToken"] = ""
    THEN "Instagram credentials missing in workspace"
    ELSE NoErr

facebookClient_Authenticate(w, ext) ==
    IF ext.FB_APP_ID = "" \/ ext.FB_APP_SECRET = "" \/ w["FacebookPageToken"] = ""
    THEN "Facebook credentials missing"
    ELSE NoErr

twitterClient_Authenticate(w, ext) == NoErr

snapchatClient_Authenticate(w, ext) ==
    IF w["SnapchatAccessToken"] = "" \/ w["SnapchatProfileID"] = ""
    THEN "Snapchat credentials missing in workspace"
    ELSE NoErr

\* Client.Authenticate, dispatched on the client's type
Authenticate(c, w, ext) ==
    LET e == CASE c.kind = PlatformYouTube   -> youtubeClient_Authenticate(w, ext)
               [] c.kind = PlatformTikTok    -> tiktokClient_Authenticate(w, ext)
               [] c.kind = PlatformInstagram -> instagramClient_Authenticate(w, ext)
               [] c.kind = PlatformFacebook  -> facebookClient_Authenticate(w, ext)
               [] c.kind = PlatformTwitter   -> twitterClient_Authenticate(w, ext)
               [] c.kind = PlatformSnapchat  -> snapchatClient_Authenticate(w, ext)
               [] OTHER                      -> fakeClient_Authenticate(w, ext)
    IN [client |-> IF e = NoErr THEN [c EXCEPT !.authed = TRUE] ELSE c, err |-> e]

\* twitterClient.Upload: "Media upload not implemented"
twitterClient_Upload(v, ext) == [id |-> <<>>, err |-> NoErr]

\* Client.Upload: every other client returns what the platform answers
Upload(c, v, ext) ==
    IF c.kind = PlatformTwitter THEN twitterClient_Upload(v, ext) ELSE ext.upload

\* Client.Publish
Publish(c, v, w, ext) == ext.publishErr

realClient_FetchStats(v, ext) ==
    [stats |-> NilStats, err |-> "fetch stats not implemented"]

\* Client.FetchStats
FetchStats(c, v, ext) ==
    IF c.kind \in SupportedPlatforms THEN realClient_FetchStats(v, ext) ELSE ext.fetch

-----------------------------------------------------------------------------
(* Client factory (pkg/partners.New) and the factories a Service is built   *)
(* with.                                                                    *)

\* New with the declared constant "linkedin" taken for a supported platform
New_AcceptsLinkedIn(p) ==
    CASE p = PlatformYouTube   -> [client |-> MkClient(PlatformYouTube), err |-> NoErr]
      [] p = PlatformTikTok    -> [client |-> MkClient(PlatformTikTok), err |-> NoErr]
      [] p = PlatformInstagram -> [client |-> MkClient(PlatformInstagram), err |-> NoErr]
      [] p = PlatformFacebook  -> [client |-> MkClient(PlatformFacebook), err |-> NoErr]
      [] p = PlatformTwitter   -> [client |-> MkClient(PlatformTwitter), err |-> NoErr]
      [] p = PlatformLinkedIn  -> [client |-> MkClient(PlatformLinkedIn), err |-> NoErr]
      [] p = PlatformSnapchat  -> [client |-> MkClient(PlatformSnapchat), err |-> NoErr]
      [] OTHER                 -> [client |-> NilClient,
                                   err |-> "unsupported platform: " \o p]

New(p) ==
    CASE p = PlatformYouTube   -> [client |-> MkClient(PlatformYouTube), err |-> NoErr]
      [] p = PlatformTikTok    -> [client |-> MkClient(PlatformTikTok), err |-> NoErr]
      [] p = PlatformInstagram -> [client |-> MkClient(PlatformInstagram), err |-> NoErr]
      [] p = PlatformFacebook  -> [client |-> MkClient(PlatformFacebook), err |-> NoErr]
      [] p = PlatformTwitter   -> [client |-> MkClient(PlatformTwitter), err |-> NoErr]
      [] p = PlatformSnapchat  -> [client |-> MkClient(PlatformSnapchat), err |-> NoErr]
      [] OTHER                 -> [client |-> NilClient,
                                   err |-> "unsupported platform: " \o p]

Factories == {"New", "mock", "failing"}

\* s.factory(string(platform)): New, a double that hands out a fake client
\* whatever the platform, or a double that fails
CallFactory(f, p) ==
    CASE f = "New"  -> New(p)
      [] f = "mock" -> [client |-> MkClient("fake"), err |-> NoErr]
      [] OTHER      -> [client |-> NilClient, err |-> "factory failed"]

-----------------------------------------------------------------------------
(* Publication service (internal/partners/service.go).  A call returns what *)
(* it leaves behind: the recording, the client, the caller's two objects    *)
(* and the returned pair.                                                   *)

Ret(tr, c, v, w, st, e) ==
    [trace |-> tr, client |-> c, video |-> v, ws |-> w, stats |-> st, err |-> e]

\* the switch on platform that stores the upload's id on the video
SetPlatformID(v, p, id) ==
    CASE p = PlatformYouTube   -> [v EXCEPT !.YouTubeID = id]
      [] p = PlatformTikTok    -> [v EXCEPT !.TikTokID = id]
      [] p = PlatformInstagram -> [v EXCEPT !.InstagramID = id]
      [] p = PlatformFacebook  -> [v EXCEPT !.FacebookID = id]
      [] p = PlatformTwitter   ->
            LET r == ParseInt(id)
            IN IF r.ok THEN [v EXCEPT !.TwitterMediaID = r.val] ELSE v
      [] p = PlatformSnapchat  -> [v EXCEPT !.SnapchatMediaID = id]
      [] OTHER                 -> v

\* FetchStats' pair not passed through: the stats are dropped when it errs
PublishVideo_FetchStats_DropsStats(c, p, w, v, tr, ext) ==
    LET r == FetchStats(c, v, ext)
    IN Ret(Append(tr, Called("stats", <<>>, r.stats, r.err)), c, v, w,
           IF r.err # NoErr THEN NilStats ELSE r.stats, r.err)

\* return client.FetchStats(v)
PublishVideo_FetchStats(c, p, w, v, tr, ext) ==
    LET r == FetchStats(c, v, ext)
    IN Ret(Append(tr, Called("stats", <<>>, r.stats, r.err)), c, v, w, r.stats, r.err)

\* the Publish step left out
PublishVideo_Publish_Skipped(c, p, w, v, tr, ext) ==
    PublishVideo_FetchStats(c, p, w, v, tr, ext)

\* Publish's error not checked
PublishVideo_Publish_Unchecked(c, p, w, v, tr, ext) ==
    LET e   == Publish(c, v, w, ext)
        tr2 == Append(tr, Called("publish", <<>>, NilStats, e))
    IN PublishVideo_FetchStats(c, p, w, v, tr2, ext)

\* if err := client.Publish(v, ws); err != nil { return nil, err }
PublishVideo_Publish(c, p, w, v, tr, ext) ==
    LET e   == Publish(c, v, w, ext)
        tr2 == Append(tr, Called("publish", <<>>, NilStats, e))
    IN IF e # NoErr THEN Ret(tr2, c, v, w, NilStats, e)
       ELSE PublishVideo_FetchStats(c, p, w, v, tr2, ext)

\* the id stored before Upload's error is checked
PublishVideo_Upload_StoresFirst(c, p, w, v, tr, ext) ==
    LET r   == Upload(c, v, ext)
        tr2 == Append(tr, Called("upload", r.id, NilStats, r.err))
        v2  == SetPlatformID(v, p, r.id)
    IN IF r.err # NoErr THEN Ret(tr2, c, v2, w, NilStats, r.err)
       ELSE PublishVideo_Publish(c, p, w, v2, tr2, ext)

\* id, err := client.Upload(v); if err != nil { return nil, err }; switch ...
PublishVideo_Upload(c, p, w, v, tr, ext) ==
    LET r   == Upload(c, v, ext)
        tr2 == Append(tr, Called("upload", r.id, NilStats, r.err))
    IN IF r.err # NoErr THEN Ret(tr2, c, v, w, NilStats, r.err)
       ELSE PublishVideo_Publish(c, p, w, SetPlatformID(v, p, r.id), tr2, ext)

\* if err := client.Authenticate(ws); err != nil { return nil, err }
PublishVideo_Authenticate(c, p, w, v, tr, ext) ==
    LET r   == Authenticate(c, w, ext)
        tr2 == Append(tr, Called("auth", <<>>, NilStats, r.err))
    IN IF r.err # NoErr THEN Ret(tr2, r.client, v, w, NilStats, r.err)
       ELSE PublishVideo_Upload(r.client, p, w, v, tr2, ext)

\* Service.PublishVideo
PublishVideo(f, p, w, v, ext) ==
    LET r == CallFactory(f, p)
    IN IF r.err # NoErr THEN Ret(<<>>, r.client, v, w, NilStats, r.err)
       ELSE PublishVideo_Authenticate(r.client, p, w, v, <<>>, ext)

\* SyncStats uploading first when the video has no identifier yet
SyncStats_UploadsMissing(f, p, w, v, ext) ==
    LET r == CallFactory(f, p)
    IN IF r.err # NoErr THEN Ret(<<>>, r.client, v, w, NilStats, r.err)
       ELSE
         LET a   == Authenticate(r.client, w, ext)
             tr1 == <<Called("auth", <<>>, NilStats, a.err)>>
         IN IF a.err # NoErr THEN Ret(tr1, a.client, v, w, NilStats, a.err)
            ELSE IF v.YouTubeID = <<>>
            THEN PublishVideo_Upload(a.client, p, w, v, tr1, ext)
            ELSE
              LET s == FetchStats(a.client, v, ext)
              IN Ret(Append(tr1, Called("stats", <<>>, s.stats, s.err)),
                     a.client, v, w, s.stats, s.err)

\* Service.SyncStats
SyncStats(f, p, w, v, ext) ==
    LET r == CallFactory(f, p)
    IN IF r.err # NoErr THEN Ret(<<>>, r.client, v, w, NilStats, r.err)
       ELSE
         LET a   == Authenticate(r.client, w, ext)
             tr1 == <<Called("auth", <<>>, NilStats, a.err)>>
         IN IF a.err # NoErr THEN Ret(tr1, a.client, v, w, NilStats, a.err)
            ELSE
              LET s == FetchStats(a.client, v, ext)
              IN Ret(Append(tr1, Called("stats", <<>>, s.stats, s.err)),
                     a.client, v, w, s.stats, s.err)

\* videoService.PublishVideo (internal/services): loads the video, refuses
\* one that is not ready, and starts nothing
videoService_PublishVideo(found, v) ==
    IF ~found THEN "failed to get video"
    ELSE IF v.Status # StatusReady THEN "video is not ready for publishing"
    ELSE NoErr

-----------------------------------------------------------------------------
(* Publication jobs (internal/models/publication_job.go) and their store    *)
(* (internal/repositories/publication_job_repository.go).  The table is the *)
(* set of its rows; a row is a PublicationJob.  A sql.NullTime is a record  *)
(* of Valid and Time; times are ticks of the clock.                         *)

\* models.PublicationStatus constants
PublicationPending == "pending"

PublicationScheduled == "scheduled"

PublicationProcessing == "processing"

PublicationCompleted == "completed"

PublicationFailed == "failed"

PublicationCancelled == "cancelled"

PublicationStatuses ==
    {PublicationPending, PublicationScheduled, PublicationProcessing,
     PublicationCompleted, PublicationFailed, PublicationCancelled}

TerminalStatuses == {PublicationCompleted, PublicationFailed, PublicationCancelled}

ErrPublicationNotFound == "publication job not found"

\* sql.NullTime{} and sql.NullTime{Time: t, Valid: true}
NullTime == [Valid |-> FALSE, Time |-> 0]

TimeAt(t) == [Valid |-> TRUE, Time |-> t]

\* a *time.Time of a request: nil or a time
NilTime == [isNil |-> TRUE, Time |-> 0]

PtrTime(t) == [isNil |-> FALSE, Time |-> t]

\* a *string of a request: nil or a string
NilString == [isNil |-> TRUE, Str |-> ""]

PtrString(x) == [isNil |-> FALSE, Str |-> x]

\* the zero PublicationJob; its ID 0 stands for the empty string
ZeroJob ==
    [ID |-> 0, TenantID |-> "", VideoID |-> "", Platform |-> "", Status |-> "",
     ExternalID |-> "", ExternalURL |-> "", ErrorMsg |-> "",
     RetryCount |-> 0, MaxRetries |-> 0,
     ScheduledAt |-> NullTime, StartedAt |-> NullTime, CompletedAt |-> NullTime,
     DeletedAt |-> NullTime]

\* CreatePublicationJobRequest
CreateRequest(videoID, plat, scheduledAt, maxRetries) ==
    [VideoID |-> videoID, Platform |-> plat, ScheduledAt |-> scheduledAt,
     MaxRetries |-> maxRetries]

\* UpdatePublicationJobRequest
UpdateRequest(status, scheduledAt) ==
    [Status |-> status, ScheduledAt |-> scheduledAt]

(* Repository: each operation on a table tbl gives the table it leaves. *)

\* r.db.Create(job) after job.ID = uuid.New().String(); id is the fresh ID
repo_Create(tbl, job, id) ==
    tbl \cup {[job EXCEPT !.ID = IF job.ID = 0 THEN id ELSE job.ID]}

\* GetByID that looks the job up by its ID alone
repo_GetByID_AnyTenant(tbl, tenantID, id) ==
    {r \in tbl : r.ID = id}

\* Where("tenant_id = ? AND id = ?").First(&job): the matching rows, none
\* when the job is not found
repo_GetByID(tbl, tenantID, id) ==
    {r \in tbl : r.TenantID = tenantID /\ r.ID = id}

repo_GetByVideoID(tbl, tenantID, videoID) ==
    {r \in tbl : r.TenantID = tenantID /\ r.VideoID = videoID}

repo_GetByStatus(tbl, tenantID, status) ==
    {r \in tbl : r.TenantID = tenantID /\ r.Status = status}

repo_GetByPlatform(tbl, tenantID, plat) ==
    {r \in tbl : r.TenantID = tenantID /\ r.Platform = plat}

repo_List(tbl, tenantID) ==
    {r \in tbl : r.TenantID = tenantID}

\* GetScheduledJobs with scheduled_at < ? in place of scheduled_at <= ?
repo_GetScheduledJobs_StrictlyBefore(tbl, before) ==
    {r \in tbl : /\ r.Status = PublicationScheduled
                 /\ r.ScheduledAt.Valid
                 /\ r.ScheduledAt.Time < before}

\* Where("status = ? AND scheduled_at <= ?"): a NULL scheduled_at compares
\* as unknown and the row is left out
repo_GetScheduledJobs(tbl, before) ==
    {r \in tbl : /\ r.Status = PublicationScheduled
                 /\ r.ScheduledAt.Valid
                 /\ r.ScheduledAt.Time <= before}

\* Limit(limit).Offset(offset) on the matching rows: no ORDER BY, so any
\* window of the right size may come back
Page(rows, limit, offset) ==
    LET n    == Cardinality(rows)
        rest == IF n > offset THEN n - offset ELSE 0
        size == IF rest > limit THEN limit ELSE rest
    IN {w \in SUBSET rows : Cardinality(w) = size}

\* r.db.Save(job): every column of the row with job's primary key replaced
repo_Update(tbl, job) ==
    {r \in tbl : r.ID # job.ID} \cup {job}

\* Where("tenant_id = ? AND id = ?").Delete(&models.PublicationJob{}):
\* DeletedAt is a sql.NullTime, not a gorm.DeletedAt, so the row is deleted
repo_Delete(tbl, tenantID, id) ==
    {r \in tbl : ~(r.TenantID = tenantID /\ r.ID = id)}

\* UpdateStatus that also resets the job's retry state
repo_UpdateStatus_ResetsRetries(tbl, tenantID, id, status) ==
    {IF r.TenantID = tenantID /\ r.ID = id
     THEN [r EXCEPT !.Status = status, !.RetryCount = 0, !.ErrorMsg = ""] ELSE r :
        r \in tbl}

\* Model(..).Where("tenant_id = ? AND id = ?").Update("status", status)
repo_UpdateStatus(tbl, tenantID, id, status) ==
    {IF r.TenantID = tenantID /\ r.ID = id THEN [r EXCEPT !.Status = status] ELSE r :
        r \in tbl}

\* UpdateColumn("retry_count", gorm.Expr("retry_count + 1"))
repo_IncrementRetryCount(tbl, tenantID, id) ==
    {IF r.TenantID = tenantID /\ r.ID = id
        THEN [r EXCEPT !.RetryCount = r.RetryCount + 1] ELSE r :
        r \in tbl}

(* PublicationJobService: each operation gives the table it leaves, the    *)
(* jobs it returns and its error.                                          *)

JobRet(tbl, rows, e) == [tbl |-> tbl, rows |-> rows, err |-> e]

\* the only row of a one-row result
TheRow(rows) == CHOOSE r \in rows : TRUE

\* CreatePublicationJob's job with max_retries copied from the request as it is
NewPublicationJob_NoDefault(tenantID, req) ==
    LET job == [ZeroJob EXCEPT
                   !.TenantID = tenantID,
                   !.VideoID = req.VideoID,
                   !.Platform = req.Platform,
                   !.Status = PublicationPending,
                   !.MaxRetries = req.MaxRetries]
    IN IF ~req.ScheduledAt.isNil
       THEN [job EXCEPT !.ScheduledAt = TimeAt(req.ScheduledAt.Time),
                        !.Status = PublicationScheduled]
       ELSE job

\* the job CreatePublicationJob builds before it is stored
NewPublicationJob(tenantID, req) ==
    LET maxRetries == IF req.MaxRetries = 0 THEN 3 ELSE req.MaxRetries
        job == [ZeroJob EXCEPT
                   !.TenantID = tenantID,
                   !.VideoID = req.VideoID,
                   !.Platform = req.Platform,
                   !.Status = PublicationPending,
                   !.MaxRetries = maxRetries]
    IN IF ~req.ScheduledAt.isNil
       THEN [job EXCEPT !.ScheduledAt = TimeAt(req.ScheduledAt.Time),
                        !.Status = PublicationScheduled]
       ELSE job

CreatePublicationJob(tbl, tenantID, req, id) ==
    LET job == [NewPublicationJob(tenantID, req) EXCEPT !.ID = id]
    IN JobRet(repo_Create(tbl, NewPublicationJob(tenantID, req), id), {job}, NoErr)

\* the job UpdatePublicationJob writes back for the job it read
UpdatedJob(job, req) ==
    LET j1 == IF ~req.Status.isNil THEN [job EXCEPT !.Status = req.Status.Str] ELSE job
    IN IF ~req.ScheduledAt.isNil
       THEN [j1 EXCEPT !.ScheduledAt = TimeAt(req.ScheduledAt.Time)]
       ELSE j1

UpdatePublicationJob(tbl, tenantID, id, req) ==
    LET found == repo_GetByID(tbl, tenantID, id)
    IN IF found = {} THEN JobRet(tbl, {}, ErrPublicationNotFound)
       ELSE LET job == UpdatedJob(TheRow(found), req)
            IN JobRet(repo_Update(tbl, job), {job}, NoErr)

DeletePublicationJob(tbl, tenantID, id) ==
    JobRet(repo_Delete(tbl, tenantID, id), {}, NoErr)

\* the job StartJob writes back for the job it read
StartedJob(job, t) ==
    [job EXCEPT !.Status = PublicationProcessing, !.StartedAt = TimeAt(t)]

StartJob(tbl, tenantID, id, t) ==
    LET found == repo_GetByID(tbl, tenantID, id)
    IN IF found = {} THEN JobRet(tbl, {}, ErrPublicationNotFound)
       ELSE JobRet(repo_Update(tbl, StartedJob(TheRow(found), t)), {}, NoErr)

\* the job CompleteJob writes back for the job it read
CompletedJob(job, externalID, externalURL, t) ==
    [job EXCEPT !.Status = PublicationCompleted,
                !.ExternalID = externalID,
                !.ExternalURL = externalURL,
                !.CompletedAt = TimeAt(t)]

CompleteJob(tbl, tenantID, id, externalID, externalURL, t) ==
    LET found == repo_GetByID(tbl, tenantID, id)
    IN IF found = {} THEN JobRet(tbl, {}, ErrPublicationNotFound)
       ELSE JobRet(repo_Update(tbl,
                       CompletedJob(TheRow(found), externalID, externalURL, t)),
                   {}, NoErr)

\* FailJob's job with the first error message kept and later ones dropped
FailedJob_KeepsFirstError(job, errorMsg) ==
    LET j1 == [job EXCEPT !.RetryCount = job.RetryCount + 1,
                          !.ErrorMsg = IF job.ErrorMsg = "" THEN errorMsg ELSE job.ErrorMsg]
    IN [j1 EXCEPT !.Status = IF j1.RetryCount >= j1.MaxRetries
                             THEN PublicationFailed ELSE PublicationPending]

\* the job FailJob writes back for the job it read
FailedJob(job, errorMsg) ==
    LET j1 == [job EXCEPT !.RetryCount = job.RetryCount + 1, !.ErrorMsg = errorMsg]
    IN IF j1.RetryCount >= j1.MaxRetries
       THEN [j1 EXCEPT !.Status = PublicationFailed]
       ELSE [j1 EXCEPT !.Status = PublicationPending]

FailJob(tbl, tenantID, id, errorMsg) ==
    LET found == repo_GetByID(tbl, tenantID, id)
    IN IF found = {} THEN JobRet(tbl, {}, ErrPublicationNotFound)
       ELSE JobRet(repo_Update(tbl, FailedJob(TheRow(found), errorMsg)), {}, NoErr)

CancelJob(tbl, tenantID, id) ==
    JobRet(repo_UpdateStatus(tbl, tenantID, id, PublicationCancelled), {}, NoErr)

\* PublicationJob.IsScheduled
IsScheduled(j) == j.Status = PublicationScheduled /\ j.ScheduledAt.Valid

\* PublicationJob.ShouldExecute at time t: ScheduledAt.Time.Before(time.Now())
ShouldExecute(j, t) ==
    IF ~IsScheduled(j) THEN FALSE ELSE j.ScheduledAt.Time < t

-----------------------------------------------------------------------------
(* Bounds and inputs of the job store *)

MaxJobs == 1

MaxStoreJobs == 2

MaxTime == 1

MaxRetryCount == 4

MaxLimit == 2

MaxConcRetries == 2

MaxStoreRetries == 1

MaxLifeRetries == 2

JobIDs == 1..MaxJobs

StoreJobIDs == 1..MaxStoreJobs

AllJobIDs == JobIDs \cup StoreJobIDs

Tenants == {"t1", "t2"}

Workers == {"w1", "w2"}

Times == 0..MaxTime

ErrorMsgs == {"e1", "e2"}

CreateRequests ==
    {CreateRequest("v1", PlatformYouTube, sched, mr) :
        sched \in {NilTime} \cup {PtrTime(t) : t \in Times},
        mr \in {0, 1, -1}}

UpdateRequests ==
    {UpdateRequest(st, sched) :
        st \in {NilString} \cup {PtrString(x) : x \in PublicationStatuses \cup {"bogus"}},
        sched \in {NilTime} \cup {PtrTime(t) : t \in Times}}

\* a worker with no call in progress; a call in progress holds the job it
\* will save and the status it read
NoCall == [busy |-> FALSE, name |-> "", job |-> ZeroJob, seen |-> ""]

NoRequest == CreateRequest("", "", NilTime, 0)

\* a call of the job service: the method, its tenant and job ID, the time of
\* the call, CreatePublicationJob's request and FailJob's error message
JobOp(name, tenantID, id, req) ==
    [name |-> name, tenant |-> tenantID, id |-> id, at |-> now, req |-> req,
     msg |-> ""]

\* an empty table, the clock at 0, no handler running
JobStoreInit ==
    /\ jobs = {}
    /\ nextID = 1
    /\ now = 0
    /\ jop = JobOp("none", "", 0, NoRequest)
    /\ jrows = {}
    /\ jerr = NoErr
    /\ failSeq = [i \in AllJobIDs |-> 0]
    /\ inflight = [w \in Workers |-> NoCall]

-----------------------------------------------------------------------------
(* The state machine *)

Init ==
    /\ op = "none"
    /\ factory \in Factories
    /\ platform \in PlatformInputs
    /\ wsBefore \in Workspaces
    /\ videoBefore \in Videos
    /\ ws = wsBefore
    /\ video = videoBefore
    /\ client = NilClient
    /\ trace = <<>>
    /\ stats = NilStats
    /\ err = NoErr
    /\ JobStoreInit

Leave(name, r) ==
    /\ op' = name
    /\ trace' = r.trace
    /\ client' = r.client
    /\ video' = r.video
    /\ ws' = r.ws
    /\ stats' = r.stats
    /\ err' = r.err
    /\ UNCHANGED <<factory, platform, wsBefore, videoBefore>>
    /\ UNCHANGED jobVars

DoPublishVideo ==
    /\ op = "none"
    /\ \E ext \in Exts : Leave("PublishVideo", PublishVideo(factory, platform, ws, video, ext))

DoSyncStats ==
    /\ op = "none"
    /\ \E ext \in Exts : Leave("SyncStats", SyncStats(factory, platform, ws, video, ext))

\* a direct call of the factory New(platform)
DoNew ==
    /\ op = "none"
    /\ factory = "New"
    /\ LET r == New(platform)
       IN Leave("New", Ret(<<>>, r.client, video, ws, NilStats, r.err))

\* the HTTP layer's publish request, served by videoService.PublishVideo
DoVideoServicePublishVideo ==
    /\ op = "none"
    /\ \E found \in BOOLEAN :
         Leave("videoService.PublishVideo",
               Ret(<<>>, NilClient, video, ws, NilStats,
                   videoService_PublishVideo(found, video)))

Next ==
    \/ DoPublishVideo
    \/ DoSyncStats
    \/ DoNew
    \/ DoVideoServicePublishVideo

Spec == Init /\ [][Next]_vars

-----------------------------------------------------------------------------
(* The job store's state machine: one action per service operation, run as *)
(* a whole (JobSpec), and the clock.                                       *)

\* a job operation leaves the table r.tbl and returns r.rows and r.err
JobLeaveCall(call, r) ==
    /\ jobs' = r.tbl
    /\ jop' = call
    /\ jrows' = r.rows
    /\ jerr' = r.err
    /\ UNCHANGED <<now, inflight>>
    /\ UNCHANGED serviceVars

JobLeave(name, tenantID, id, r) ==
    JobLeaveCall(JobOp(name, tenantID, id, NoRequest), r)

\* failSeq after operation name has run on job id
Counted(name, id, r) ==
    IF r.err # NoErr \/ id \notin AllJobIDs THEN failSeq
    ELSE IF name = "FailJob"
    THEN [failSeq EXCEPT ![id] = IF @ >= 0 THEN @ + 1 ELSE @]
    ELSE [failSeq EXCEPT ![id] = -1]

DoCreatePublicationJob(tenantID, req, cap) ==
    /\ nextID <= cap
    /\ LET r == CreatePublicationJob(jobs, tenantID, req, nextID)
       IN /\ jobs' = r.tbl
          /\ jrows' = r.rows
          /\ jerr' = r.err
    /\ jop' = JobOp("CreatePublicationJob", tenantID, nextID, req)
    /\ nextID' = nextID + 1
    /\ UNCHANGED <<now, inflight, failSeq>>
    /\ UNCHANGED serviceVars

DoGetPublicationJob(tenantID, id) ==
    /\ LET found == repo_GetByID(jobs, tenantID, id)
       IN JobLeave("GetPublicationJob", tenantID, id,
                   JobRet(jobs, found,
                          IF found = {} THEN ErrPublicationNotFound ELSE NoErr))
    /\ UNCHANGED <<nextID, failSeq>>

DoGetVideoPublicationJobs(tenantID, videoID) ==
    /\ JobLeave("GetVideoPublicationJobs", tenantID, 0,
                JobRet(jobs, repo_GetByVideoID(jobs, tenantID, videoID), NoErr))
    /\ UNCHANGED <<nextID, failSeq>>

DoListPublicationJobs(tenantID, limit, offset) ==
    /\ \E rows \in Page(repo_List(jobs, tenantID), limit, offset) :
          JobLeave("ListPublicationJobs", tenantID, 0, JobRet(jobs, rows, NoErr))
    /\ UNCHANGED <<nextID, failSeq>>

DoGetJobsByStatus(tenantID, status, limit, offset) ==
    /\ \E rows \in Page(repo_GetByStatus(jobs, tenantID, status), limit, offset) :
          JobLeave("GetJobsByStatus", tenantID, 0, JobRet(jobs, rows, NoErr))
    /\ UNCHANGED <<nextID, failSeq>>

DoGetJobsByPlatform(tenantID, plat, limit, offset) ==
    /\ \E rows \in Page(repo_GetByPlatform(jobs, tenantID, plat), limit, offset) :
          JobLeave("GetJobsByPlatform", tenantID, 0, JobRet(jobs, rows, NoErr))
    /\ UNCHANGED <<nextID, failSeq>>

\* the scheduler's sweep GetScheduledJobs(time.Now(), limit)
DoGetScheduledJobs(limit) ==
    /\ \E rows \in Page(repo_GetScheduledJobs(jobs, now), limit, 0) :
          JobLeave("GetScheduledJobs", "", limit, JobRet(jobs, rows, NoErr))
    /\ UNCHANGED <<nextID, failSeq>>

DoUpdatePublicationJob(tenantID, id, req) ==
    /\ LET r == UpdatePublicationJob(jobs, tenantID, id, req)
       IN /\ JobLeave("UpdatePublicationJob", tenantID, id, r)
          /\ failSeq' = Counted("UpdatePublicationJob", id, r)
    /\ UNCHANGED nextID

DoDeletePublicationJob(tenantID, id) ==
    /\ JobLeave("DeletePublicationJob", tenantID, id,
                DeletePublicationJob(jobs, tenantID, id))
    /\ UNCHANGED <<nextID, failSeq>>

DoStartJob(tenantID, id) ==
    /\ LET r == StartJob(jobs, tenantID, id, now)
       IN /\ JobLeave("StartJob", tenantID, id, r)
          /\ failSeq' = Counted("StartJob", id, r)
    /\ UNCHANGED nextID

DoCompleteJob(tenantID, id, externalID, externalURL) ==
    /\ LET r == CompleteJob(jobs, tenantID, id, externalID, externalURL, now)
       IN /\ JobLeave("CompleteJob", tenantID, id, r)
          /\ failSeq' = Counted("CompleteJob", id, r)
    /\ UNCHANGED nextID

DoFailJob(tenantID, id, errorMsg, cap) ==
    /\ \A j \in repo_GetByID(jobs, tenantID, id) : j.RetryCount < cap
    /\ LET r == FailJob(jobs, tenantID, id, errorMsg)
       IN /\ JobLeaveCall([JobOp("FailJob", tenantID, id, NoRequest) EXCEPT
                              !.msg = errorMsg], r)
          /\ failSeq' = Counted("FailJob", id, r)
    /\ UNCHANGED nextID

DoCancelJob(tenantID, id) ==
    /\ LET r == CancelJob(jobs, tenantID, id)
       IN /\ JobLeave("CancelJob", tenantID, id, r)
          /\ failSeq' = IF repo_GetByID(jobs, tenantID, id) = {} THEN failSeq
                        ELSE Counted("CancelJob", id, r)
    /\ UNCHANGED nextID

\* time passes
Tick ==
    /\ now < MaxTime
    /\ now' = now + 1
    /\ UNCHANGED <<jobs, nextID, jop, jrows, jerr, failSeq, inflight>>
    /\ UNCHANGED serviceVars

\* the publication service at rest
ServiceIdle ==
    /\ op = "none"
    /\ factory = "mock"
    /\ platform = PlatformYouTube
    /\ wsBefore = EmptyWorkspace
    /\ videoBefore = NewVideo(StatusReady)
    /\ ws = wsBefore
    /\ video = videoBefore
    /\ client = NilClient
    /\ trace = <<>>
    /\ stats = NilStats
    /\ err = NoErr

JobInit == ServiceIdle /\ JobStoreInit

\* one tenant's calls on its job: every operation that writes it, and the
\* reads of one job
JobNext ==
    \/ \E req \in CreateRequests : DoCreatePublicationJob("t1", req, MaxJobs)
    \/ \E id \in JobIDs : DoGetPublicationJob("t1", id)
    \/ \E id \in JobIDs, req \in UpdateRequests : DoUpdatePublicationJob("t1", id, req)
    \/ \E id \in JobIDs : DoDeletePublicationJob("t1", id)
    \/ \E id \in JobIDs : DoStartJob("t1", id)
    \/ \E id \in JobIDs : DoCompleteJob("t1", id, "x1", "u1")
    \/ \E id \in JobIDs, m \in ErrorMsgs : DoFailJob("t1", id, m, MaxRetryCount)
    \/ \E id \in JobIDs : DoCancelJob("t1", id)
    \/ Tick

JobSpec == JobInit /\ [][JobNext]_vars

-----------------------------------------------------------------------------
(* Creation alone (CreateSpec): every request, by either tenant, at any    *)
(* time, with the job read back and deleted.                               *)

CreateNext ==
    \/ \E t \in Tenants, req \in CreateRequests : DoCreatePublicationJob(t, req, MaxJobs)
    \/ \E t \in Tenants, id \in JobIDs : DoGetPublicationJob(t, id)
    \/ \E t \in Tenants, id \in JobIDs : DoDeletePublicationJob(t, id)
    \/ Tick

CreateSpec == JobInit /\ [][CreateNext]_vars

-----------------------------------------------------------------------------
(* The status calls alone (LifeSpec): StartJob, CompleteJob, FailJob and   *)
(* CancelJob in any order on a job with one or two retries.                *)

LifeCreateRequests ==
    {CreateRequest("v1", PlatformYouTube, sched, mr) :
        sched \in {NilTime, PtrTime(0)}, mr \in {1, 2}}

LifeNext ==
    \/ \E req \in LifeCreateRequests : DoCreatePublicationJob("t1", req, MaxJobs)
    \/ \E id \in JobIDs : DoStartJob("t1", id)
    \/ \E id \in JobIDs : DoCompleteJob("t1", id, "x1", "u1")
    \/ \E id \in JobIDs, m \in ErrorMsgs : DoFailJob("t1", id, m, MaxLifeRetries)
    \/ \E id \in JobIDs : DoCancelJob("t1", id)

LifeSpec == JobInit /\ [][LifeNext]_vars

-----------------------------------------------------------------------------
(* Two tenants' jobs in one table (StoreSpec): every operation that takes  *)
(* a tenant, called by either tenant on either job, and the sweep.         *)

StoreCreateRequests == {CreateRequest("v1", PlatformYouTube, PtrTime(0), 1)}

StoreUpdateRequests == {UpdateRequest(PtrString(PublicationPending), NilTime)}

StoreNext ==
    \/ \E t \in Tenants, req \in StoreCreateRequests :
          DoCreatePublicationJob(t, req, MaxStoreJobs)
    \/ \E t \in Tenants, id \in StoreJobIDs : DoGetPublicationJob(t, id)
    \/ \E t \in Tenants : DoGetVideoPublicationJobs(t, "v1")
    \/ \E t \in Tenants, l \in 1..MaxLimit, o \in 0..1 : DoListPublicationJobs(t, l, o)
    \/ \E t \in Tenants, l \in 1..MaxLimit :
          DoGetJobsByStatus(t, PublicationScheduled, l, 0)
    \/ \E t \in Tenants, l \in 1..MaxLimit :
          DoGetJobsByPlatform(t, PlatformYouTube, l, 0)
    \/ \E l \in 1..MaxLimit : DoGetScheduledJobs(l)
    \/ \E t \in Tenants, id \in StoreJobIDs, req \in StoreUpdateRequests :
          DoUpdatePublicationJob(t, id, req)
    \/ \E t \in Tenants, id \in StoreJobIDs : DoDeletePublicationJob(t, id)
    \/ \E t \in Tenants, id \in StoreJobIDs : DoStartJob(t, id)
    \/ \E t \in Tenants, id \in StoreJobIDs : DoCompleteJob(t, id, "x1", "u1")
    \/ \E t \in Tenants, id \in StoreJobIDs : DoFailJob(t, id, "e1", MaxStoreRetries)
    \/ \E t \in Tenants, id \in StoreJobIDs : DoCancelJob(t, id)

StoreSpec == JobInit /\ [][StoreNext]_vars

-----------------------------------------------------------------------------
(* The scheduler's sweep over jobs that are created, rescheduled,          *)
(* cancelled and deleted while time passes (SweepSpec).                    *)

SweepCreateRequests ==
    {CreateRequest("v1", PlatformYouTube, sched, 1) :
        sched \in {NilTime} \cup {PtrTime(t) : t \in Times}}

SweepUpdateRequests ==
    {UpdateRequest(NilString, PtrTime(MaxTime)),
     UpdateRequest(PtrString(PublicationScheduled), NilTime)}

SweepNext ==
    \/ \E req \in SweepCreateRequests : DoCreatePublicationJob("t1", req, MaxStoreJobs)
    \/ \E l \in 1..MaxLimit : DoGetScheduledJobs(l)
    \/ \E id \in StoreJobIDs, req \in SweepUpdateRequests :
          DoUpdatePublicationJob("t1", id, req)
    \/ \E id \in StoreJobIDs : DoDeletePublicationJob("t1", id)
    \/ \E id \in StoreJobIDs : DoCancelJob("t1", id)
    \/ Tick

SweepSpec == JobInit /\ [][SweepNext]_vars

-----------------------------------------------------------------------------
(* An execution engine driving the store (EngineSpec). The engine is the   *)
(* external collaborator the service's status helpers are exposed to: it   *)
(* starts every job that is pending or scheduled and due, and ends every   *)
(* attempt, a processing job, with CompleteJob or FailJob. It keeps doing  *)
(* so, and time keeps passing: weak fairness on its steps and on the       *)
(* clock. Jobs are created, and cancelled, at any moment.                  *)

Stored(id) == {j \in jobs : j.ID = id}

EngineStart(id) ==
    /\ \E j \in Stored(id) :
          \/ j.Status = PublicationPending
          \/ j.Status = PublicationScheduled /\ j \in repo_GetScheduledJobs(jobs, now)
    /\ DoStartJob("t1", id)

EngineComplete(id) ==
    /\ \E j \in Stored(id) : j.Status = PublicationProcessing
    /\ DoCompleteJob("t1", id, "x1", "u1")

EngineFail(id) ==
    /\ \E j \in Stored(id) : j.Status = PublicationProcessing
    /\ DoFailJob("t1", id, "e1", MaxRetryCount)

EngineNext ==
    \/ \E req \in CreateRequests : DoCreatePublicationJob("t1", req, MaxJobs)
    \/ \E id \in JobIDs : EngineStart(id)
    \/ \E id \in JobIDs : EngineComplete(id)
    \/ \E id \in JobIDs : EngineFail(id)
    \/ \E id \in JobIDs : DoCancelJob("t1", id)
    \/ Tick

EngineFairness ==
    /\ WF_vars(Tick)
    /\ \A id \in JobIDs :
          /\ WF_vars(EngineStart(id))
          /\ WF_vars(EngineComplete(id) \/ EngineFail(id))

EngineSpec == JobInit /\ [][EngineNext]_vars /\ EngineFairness

-----------------------------------------------------------------------------
(* Concurrent callers (ConcSpec). StartJob, CompleteJob, FailJob and       *)
(* UpdatePublicationJob are two database round trips, repo.GetByID and     *)
(* repo.Update, with no transaction or lock around them: a worker's call   *)
(* is a Begin step, which reads the job and changes its copy, and          *)
(* FinishCall, which saves the copy. CreatePublicationJob and CancelJob    *)
(* are one statement each.                                                 *)

\* the job a call read, when it read one
ReadJob(tenantID, id) ==
    LET found == repo_GetByID(jobs, tenantID, id)
    IN IF found = {} THEN ZeroJob ELSE TheRow(found)

\* job, err := s.repo.GetByID(tenantID, id); if err != nil { return err }
BeginCall(w, name, tenantID, id, job) ==
    /\ ~inflight[w].busy
    /\ IF repo_GetByID(jobs, tenantID, id) = {}
       THEN /\ jop' = JobOp(name, tenantID, id, NoRequest)
            /\ jrows' = {}
            /\ jerr' = ErrPublicationNotFound
            /\ UNCHANGED inflight
       ELSE /\ inflight' = [inflight EXCEPT ![w] =
                                [busy |-> TRUE, name |-> name, job |-> job,
                                 seen |-> ReadJob(tenantID, id).Status]]
            /\ UNCHANGED <<jop, jrows, jerr>>
    /\ UNCHANGED <<jobs, nextID, now, failSeq>>
    /\ UNCHANGED serviceVars

BeginStartJob(w, tenantID, id) ==
    BeginCall(w, "StartJob", tenantID, id, StartedJob(ReadJob(tenantID, id), now))

BeginCompleteJob(w, tenantID, id, externalID, externalURL) ==
    BeginCall(w, "CompleteJob", tenantID, id,
              CompletedJob(ReadJob(tenantID, id), externalID, externalURL, now))

BeginFailJob(w, tenantID, id, errorMsg) ==
    /\ ReadJob(tenantID, id).RetryCount < MaxConcRetries
    /\ BeginCall(w, "FailJob", tenantID, id, FailedJob(ReadJob(tenantID, id), errorMsg))

BeginUpdatePublicationJob(w, tenantID, id, req) ==
    BeginCall(w, "UpdatePublicationJob", tenantID, id,
              UpdatedJob(ReadJob(tenantID, id), req))

\* return s.repo.Update(job)
FinishCall(w) ==
    /\ inflight[w].busy
    /\ LET c == inflight[w]
           r == JobRet(repo_Update(jobs, c.job),
                       IF c.name = "UpdatePublicationJob" THEN {c.job} ELSE {}, NoErr)
       IN /\ jobs' = r.tbl
          /\ jrows' = r.rows
          /\ jerr' = r.err
          /\ jop' = [JobOp(c.name, c.job.TenantID, c.job.ID, NoRequest) EXCEPT
                        !.msg = IF c.name = "FailJob" THEN c.job.ErrorMsg ELSE ""]
          /\ failSeq' = Counted(c.name, c.job.ID, r)
    /\ inflight' = [inflight EXCEPT ![w] = NoCall]
    /\ UNCHANGED <<nextID, now>>
    /\ UNCHANGED serviceVars

ConcCreateRequests == {CreateRequest("v1", PlatformYouTube, NilTime, 0)}

ConcUpdateRequests == {UpdateRequest(NilString, PtrTime(1))}

ConcNext ==
    \/ \E req \in ConcCreateRequests : DoCreatePublicationJob("t1", req, MaxJobs)
    \/ \E w \in Workers, id \in JobIDs : BeginStartJob(w, "t1", id)
    \/ \E w \in Workers, id \in JobIDs : BeginCompleteJob(w, "t1", id, "x1", "u1")
    \/ \E w \in Workers, id \in JobIDs : BeginFailJob(w, "t1", id, "e1")
    \/ \E w \in Workers, id \in JobIDs, req \in ConcUpdateRequests :
          BeginUpdatePublicationJob(w, "t1", id, req)
    \/ \E w \in Workers : FinishCall(w)
    \/ \E id \in JobIDs : DoCancelJob("t1", id)

ConcSpec == JobInit /\ [][ConcNext]_vars

-----------------------------------------------------------------------------
(* Properties *)

\* the operations of the recording, in order
CallNames == [i \in 1..Len(trace) |-> trace[i].call]

\* the identifier a video carries for a platform
PlatformID(v, p) ==
    CASE p = PlatformYouTube   -> v.YouTubeID
      [] p = PlatformTikTok    -> v.TikTokID
      [] p = PlatformInstagram -> v.InstagramID
      [] p = PlatformFacebook  -> v.FacebookID
      [] p = PlatformTwitter   -> v.TwitterMediaID
      [] p = PlatformSnapchat  -> v.SnapchatMediaID

PlatformIDField(p) ==
    CASE p = PlatformYouTube   -> "YouTubeID"
      [] p = PlatformTikTok    -> "TikTokID"
      [] p = PlatformInstagram -> "InstagramID"
      [] p = PlatformFacebook  -> "FacebookID"
      [] p = PlatformTwitter   -> "TwitterMediaID"
      [] p = PlatformSnapchat  -> "SnapchatMediaID"

\* video v carries id as its identifier on platform p; the numeric Twitter
\* field carries an id when it holds the number the id denotes
Carries(v, p, id) ==
    IF p = PlatformTwitter
    THEN ParseInt(id).ok /\ v.TwitterMediaID = ParseInt(id).val
    ELSE PlatformID(v, p) = id

\* Upload was invoked and succeeded
UploadSucceeded == Len(trace) >= 2 /\ trace[2].call = "upload" /\ trace[2].err = NoErr

\* C1: a successful PublishVideo call made exactly the four client calls
\* Authenticate, Upload, Publish, FetchStats, once each and in that order.
C1_StepOrdering ==
    (op = "PublishVideo" /\ err = NoErr)
        => CallNames = <<"auth", "upload", "publish", "stats">>

C1_Witness ==
    /\ op = "PublishVideo"
    /\ err = NoErr
    /\ stats = MkStats(1)
    /\ Len(trace) = 4

\* C2: in PublishVideo a failing step is the last one: nothing is invoked
\* after a failed factory, Authenticate, Upload or Publish.
C2_ShortCircuit ==
    op = "PublishVideo" =>
        /\ CallFactory(factory, platform).err # NoErr => trace = <<>>
        /\ \A i \in 1..Len(trace) :
              (trace[i].call \in {"auth", "upload", "publish"} /\ trace[i].err # NoErr)
                  => i = Len(trace)
        /\ \A i \in 1..Len(trace) :
              /\ trace[i].call = "upload"  => (i = 2 /\ trace[1].err = NoErr)
              /\ trace[i].call = "publish" => (i = 3 /\ trace[2].err = NoErr)
              /\ trace[i].call = "stats"   => (i = 4 /\ trace[3].err = NoErr)

C2_Witness ==
    /\ op = "PublishVideo"
    /\ CallNames = <<"auth", "upload", "publish">>
    /\ trace[3].err # NoErr

\* C3: when Upload succeeded and Publish or FetchStats then failed, the
\* video carries the id Upload returned in the platform's identifier field.
C3_PartialProgressKept ==
    (op = "PublishVideo" /\ platform \in SupportedPlatforms
        /\ UploadSucceeded /\ err # NoErr)
        => Carries(video, platform, trace[2].id)

\* C4: a PublishVideo that failed at the factory, Authenticate or Upload left
\* the video as it was, and neither PublishVideo nor SyncStats changes the
\* workspace.
C4_NoMutationOnEarlyFailure ==
    /\ (op = "PublishVideo" /\ err # NoErr
          /\ (trace = <<>> \/ trace[Len(trace)].call \in {"auth", "upload"}))
        => video = videoBefore
    /\ op \in {"PublishVideo", "SyncStats"} => ws = wsBefore

C4_Witness ==
    /\ op = "PublishVideo"
    /\ CallNames = <<"auth", "upload">>
    /\ trace[2].err # NoErr
    /\ videoBefore = PublishedVideo(StatusReady)
    /\ wsBefore = FullWorkspace

\* C5: on each of the six platforms, whatever id a successful Upload
\* returned is stored in that platform's identifier field, and no other
\* identifier field changes.
C5_PerPlatformDispatch ==
    (op = "PublishVideo" /\ platform \in SupportedPlatforms /\ UploadSucceeded)
        => /\ Carries(video, platform, trace[2].id)
           /\ \A f \in IDFields \ {PlatformIDField(platform)} :
                 video[f] = videoBefore[f]

C7_PassThrough ==
    op = "PublishVideo" =>
        LET n == Len(trace)
        IN /\ n = 4 => (stats = trace[4].stats /\ err = trace[4].err)
           /\ n \in 1..3 => (stats = NilStats /\ err = trace[n].err /\ err # NoErr)
           /\ n = 0 => /\ stats = NilStats
                       /\ err # NoErr
                       /\ err = IF factory = "New"
                                THEN "unsupported platform: " \o platform
                                ELSE "factory failed"

C7_Witness ==
    /\ op = "PublishVideo"
    /\ Len(trace) = 4
    /\ trace[4].err # NoErr
    /\ stats = MkStats(1)

\* C8: SyncStats invokes Authenticate and, once that succeeded, FetchStats,
\* never Upload or Publish, and leaves the video as it was, with or without
\* an identifier on it.
C8_SyncOnly ==
    op = "SyncStats" =>
        /\ video = videoBefore
        /\ \A i \in 1..Len(trace) : trace[i].call \notin {"upload", "publish"}
        /\ CallNames =
              IF CallFactory(factory, platform).err # NoErr THEN <<>>
              ELSE IF trace[1].err # NoErr THEN <<"auth">>
              ELSE <<"auth", "stats">>

C8_Witness ==
    /\ op = "SyncStats"
    /\ CallNames = <<"auth", "stats">>
    /\ videoBefore = NewVideo(StatusReady)

\* C9: PublishVideo invokes a platform client only for a video whose status
\* is "ready".
C9_OnlyReadyVideos ==
    (op = "PublishVideo" /\ trace # <<>>) => videoBefore.Status = StatusReady

\* C10: with the clients of New and a workspace without credentials,
\* Authenticate fails and Upload is never reached, on each of the six
\* platforms.
C10_EmptyWorkspaceFailsFast ==
    (op = "PublishVideo" /\ factory = "New" /\ wsBefore = EmptyWorkspace
        /\ platform \in SupportedPlatforms)
        => (CallNames = <<"auth">> /\ trace[1].err # NoErr)

-----------------------------------------------------------------------------
(* Properties of the job store *)

\* the calls that write a job's status
StatusCalls ==
    {"StartJob", "CompleteJob", "FailJob", "CancelJob", "UpdatePublicationJob"}

\* the status changes the lifecycle allows to the call that makes them
AllowedChange(name, from, to) ==
    \/ name = "StartJob" /\ from \in {PublicationPending, PublicationScheduled}
                         /\ to = PublicationProcessing
    \/ name = "CompleteJob" /\ from = PublicationProcessing /\ to = PublicationCompleted
    \/ name = "FailJob" /\ from = PublicationProcessing
                        /\ to \in {PublicationPending, PublicationFailed}
    \/ name = "CancelJob" /\ from \in PublicationStatuses \ TerminalStatuses
                          /\ to = PublicationCancelled

\* C11: on a job with max_retries = N >= 1 created with retry_count 0, after k
\* FailJob calls in a row (k >= 1) retry_count is k and at most N, and the
\* status is pending while k < N and failed when k = N.
C11_FailSequence ==
    \A j \in jobs :
        LET k == failSeq[j.ID]
            N == j.MaxRetries
        IN (k >= 1 /\ N >= 1) =>
              /\ j.RetryCount = k
              /\ j.RetryCount <= N
              /\ (k < N => j.Status = PublicationPending)
              /\ (k = N => j.Status = PublicationFailed)

\* C12: in every reachable state every stored job has
\* retry_count <= max_retries (stated for the jobs whose max_retries is at
\* least 1; a job created with a negative max_retries breaks it at once).
C12_RetryCountBounded ==
    \A j \in jobs : j.MaxRetries >= 1 => j.RetryCount <= j.MaxRetries

\* C13: in every reachable state a job whose status is failed has
\* retry_count >= max_retries.
C13_FailedOnlyWhenExhausted ==
    \A j \in jobs : j.Status = PublicationFailed => j.RetryCount >= j.MaxRetries

\* C14: once a job's status is completed, failed or cancelled, no StartJob,
\* CompleteJob, FailJob, CancelJob or UpdatePublicationJob call changes it.
C14_TerminalAbsorbing ==
    [][\A j \in jobs, k \in jobs' :
          (j.ID = k.ID /\ j.Status \in TerminalStatuses /\ jop'.name \in StatusCalls)
              => k.Status = j.Status]_vars

\* C15: every change of a stored job's status is one the transition graph
\* allows to the call that made it, and every stored status is one of the six.
C15_TransitionGraph ==
    [][/\ \A j \in jobs, k \in jobs' :
             (j.ID = k.ID /\ j.Status # k.Status)
                 => AllowedChange(jop'.name, j.Status, k.Status)
       /\ \A k \in jobs' : k.Status \in PublicationStatuses]_vars

\* C16: the job CreatePublicationJob returns is scheduled exactly when the
\* request carries a start time later than the time of the call, and pending
\* otherwise.
C16_ScheduledIffFuture ==
    jop.name = "CreatePublicationJob" =>
        \A j \in jrows :
            LET future == ~jop.req.ScheduledAt.isNil /\ jop.req.ScheduledAt.Time > jop.at
            IN j.Status = IF future THEN PublicationScheduled ELSE PublicationPending

\* C17: the job CreatePublicationJob returns has retry_count 0 and the
\* request's max_retries, or 3 when the request's max_retries is zero.
C17_CreateRetryFields ==
    (jop.name = "CreatePublicationJob" /\ jerr = NoErr) =>
        /\ jrows # {}
        /\ \A j \in jrows :
              /\ j.RetryCount = 0
              /\ j.MaxRetries = IF jop.req.MaxRetries = 0 THEN 3 ELSE jop.req.MaxRetries
              /\ j \in jobs

\* a job was created with max_retries left unset, and another with it set
C17_Witness ==
    /\ jop.name = "CreatePublicationJob"
    /\ jerr = NoErr
    /\ jop.req.MaxRetries = 0
    /\ \E j \in jrows : j.MaxRetries = 3 /\ j.RetryCount = 0

\* C18: a stored job's retry_count never decreases: whatever the calls and
\* however they interleave, every step leaves it equal or larger.
C18_RetryCountMonotonic ==
    [][\A j \in jobs, k \in jobs' : j.ID = k.ID => k.RetryCount >= j.RetryCount]_vars

\* a job is due at time t: it is scheduled, for a time that has come
Due(j, t) ==
    j.Status = PublicationScheduled /\ j.ScheduledAt.Valid /\ j.ScheduledAt.Time <= t

DueJobs(t) == {j \in jobs : Due(j, t)}

\* a step that is a sweep: GetScheduledJobs(time.Now(), limit), limit = jop'.id
IsSweep == jop'.name = "GetScheduledJobs" /\ now' = now

TenantCalls ==
    {"GetPublicationJob", "GetVideoPublicationJobs", "ListPublicationJobs",
     "GetJobsByStatus", "GetJobsByPlatform", "UpdatePublicationJob",
     "DeletePublicationJob", "StartJob", "CompleteJob", "FailJob", "CancelJob"}

\* C20: a get, list, update, status transition or delete called with tenant T
\* returns only T's jobs and leaves every other tenant's job as it is; the
\* sweep GetScheduledJobs returns the due jobs of all tenants.
C20_TenantScoped ==
    [][/\ jop'.name \in TenantCalls =>
             /\ \A j \in jrows' : j.TenantID = jop'.tenant
             /\ \A j \in jobs : j.TenantID # jop'.tenant => j \in jobs'
             /\ \A k \in jobs' : k.TenantID # jop'.tenant => k \in jobs
       /\ (IsSweep /\ jop'.id >= Cardinality(DueJobs(now))) => jrows' = DueJobs(now)]_vars

\* a tenant's call on another tenant's job found no job
C20_Witness ==
    /\ jop.name \in {"UpdatePublicationJob", "StartJob", "CompleteJob", "FailJob"}
    /\ jerr = ErrPublicationNotFound
    /\ \E j \in jobs : j.ID = jop.id /\ j.TenantID # jop.tenant

\* a step that is a call of the method name
IsCall(name) == jop'.name = name /\ now' = now

\* C21: CancelJob on a pending, scheduled or processing job returns no error
\* and leaves the table as it was but for that job's status, now cancelled:
\* every other field of the job is kept and the job is not deleted.
C21_CancelIsStatusOnly ==
    [][\A j \in jobs :
          (/\ IsCall("CancelJob")
           /\ jop'.tenant = j.TenantID
           /\ jop'.id = j.ID
           /\ j.Status \in PublicationStatuses \ TerminalStatuses)
              => /\ jobs' = (jobs \ {j}) \cup {[j EXCEPT !.Status = PublicationCancelled]}
                 /\ jerr' = NoErr]_vars

\* a job that had failed once and was started again has been cancelled, and
\* still carries its retry count, error message and start time
C21_Witness ==
    /\ jop.name = "CancelJob"
    /\ \E j \in jobs :
          /\ j.ID = jop.id
          /\ j.Status = PublicationCancelled
          /\ j.RetryCount >= 1
          /\ j.ErrorMsg # ""
          /\ j.StartedAt.Valid

\* C22: after DeletePublicationJob(tenant, id) on a stored job, the job is
\* returned by no get, list or sweep, and its row is still in the table, with
\* its deleted-at marker set.
C22_DeleteIsSoft ==
    [][\A j \in jobs :
          (/\ IsCall("DeletePublicationJob")
           /\ jop'.tenant = j.TenantID
           /\ jop'.id = j.ID)
              => /\ \E k \in jobs' : k.ID = j.ID /\ k.DeletedAt.Valid
                 /\ \A k \in repo_GetByID(jobs', j.TenantID, j.ID) \cup
                             repo_List(jobs', j.TenantID) \cup
                             repo_GetScheduledJobs(jobs', MaxTime) : k.ID # j.ID]_vars

\* C23: after a FailJob(msg) that found its job, the job's error message is
\* msg, whether the call left the job pending or failed, and a StartJob,
\* CompleteJob or CancelJob call changes no job's error message.
C23_LastErrorRetained ==
    [][/\ (IsCall("FailJob") /\ jerr' = NoErr) =>
             \E k \in jobs' : k.ID = jop'.id /\ k.ErrorMsg = jop'.msg
       /\ (IsCall("StartJob") \/ IsCall("CompleteJob") \/ IsCall("CancelJob")) =>
             \A j \in jobs, k \in jobs' : j.ID = k.ID => k.ErrorMsg = j.ErrorMsg]_vars

\* the second FailJob on a job moved it to failed and left its own message
C23_Witness ==
    /\ jop.name = "FailJob"
    /\ jop.msg = "e2"
    /\ \E j \in jobs :
          /\ j.ID = jop.id
          /\ j.Status = PublicationFailed
          /\ j.RetryCount = 2
          /\ j.ErrorMsg = "e2"

\* C24: in every reachable state a processing job has a start timestamp, and
\* a completed job has a completion timestamp and the external ID and URL
\* that CompleteJob was given.
C24_TimestampsRecorded ==
    \A j \in jobs :
        /\ j.Status = PublicationProcessing => j.StartedAt.Valid
        /\ j.Status = PublicationCompleted =>
              /\ j.CompletedAt.Valid
              /\ j.ExternalID = "x1"
              /\ j.ExternalURL = "u1"

\* C25: no failure is lost: on a job that only FailJob calls have written
\* since it was created, the stored retry_count is the number of FailJob calls
\* that have returned, however the calls interleave.
C25_NoLostFailure ==
    \A j \in jobs : failSeq[j.ID] >= 0 => j.RetryCount = failSeq[j.ID]

\* C26: a StartJob, CompleteJob or FailJob that read a job before it was
\* cancelled and saves it afterwards leaves the stored status cancelled.
C26_CancelSurvivesInFlightCall ==
    [][\A w \in Workers :
          (/\ inflight[w].busy
           /\ ~inflight'[w].busy
           /\ inflight[w].name \in {"StartJob", "CompleteJob", "FailJob"}
           /\ inflight[w].seen # PublicationCancelled)
              => \A j \in jobs, k \in jobs' :
                    (j.ID = k.ID /\ j.Status = PublicationCancelled)
                        => k.Status = PublicationCancelled]_vars

\* C27: at every time, a stored job satisfies the sweep's condition exactly
\* when its own ShouldExecute is true, the instant now = scheduled_at included.
C27_DuePredicatesAgree ==
    \A j \in jobs : (j \in repo_GetScheduledJobs(jobs, now)) <=> ShouldExecute(j, now)

\* C28: a StartJob, CompleteJob, FailJob or CancelJob call for a tenant and ID
\* that no stored job has returns the not-found error and changes no job.
C28_MissingJobIsNotFound ==
    [][\A name \in {"StartJob", "CompleteJob", "FailJob", "CancelJob"} :
          (IsCall(name) /\ repo_GetByID(jobs, jop'.tenant, jop'.id) = {})
              => /\ jerr' = ErrPublicationNotFound
                 /\ jobs' = jobs]_vars

\* C30: with a client built by New, a PublishVideo whose Authenticate, Upload
\* and Publish all succeeded returns nil stats and the error "fetch stats not
\* implemented" on each of the six platforms, and the video carries the media
\* ID that Upload returned.
C30_RealClientsNeverReportSuccess ==
    (/\ op = "PublishVideo"
     /\ factory = "New"
     /\ Len(trace) >= 3
     /\ \A i \in 1..3 : trace[i].err = NoErr)
        => /\ platform \in SupportedPlatforms
           /\ CallNames = <<"auth", "upload", "publish", "stats">>
           /\ stats = NilStats
           /\ err = "fetch stats not implemented"
           /\ Carries(video, platform, trace[2].id)

\* C29: under the engine, which starts every pending or due job and ends every
\* attempt with CompleteJob or FailJob, a job that has been failed has been
\* failed at most max_retries times (the engine's FailJob calls on a job are
\* its retry_count).
C29_AtMostMaxRetriesFailures ==
    \A j \in jobs : j.RetryCount >= 1 => j.RetryCount <= j.MaxRetries

\* The termination half of C29, which the engine does achieve: every created
\* job eventually is completed, failed or cancelled, and no job is failed more
\* often than its max_retries, or than once when its max_retries is below 1.
EngineRetryLoopTerminates ==
    /\ [](\A j \in jobs :
             j.RetryCount <= IF j.MaxRetries >= 1 THEN j.MaxRetries ELSE 1)
    /\ \A id \in JobIDs :
          (Stored(id) # {}) ~> (\E j \in Stored(id) : j.Status \in TerminalStatuses)

====
